---- MODULE Spec2Model ----
(***************************************************************************)
(* Message timeline of the chat area (ChatArea component, kept in          *)
(* src/src/components/ChatList.vue from line 431 on) together with the     *)
(* push-event handler of the main view (src/unnamed/part_006).             *)
(*                                                                         *)
(* A message record is a TLA+ record with the fields of OneBotMessage that *)
(* the timeline reads or writes:                                           *)
(*   lid   localMessageId, 0 = undefined                                   *)
(*   time  time (seconds)                                                  *)
(*   post  post_type                                                       *)
(*   mtype message_type                                                    *)
(*   uid   user_id, gid group_id (0 = undefined)                           *)
(*   mid   message_id, 0 = undefined                                       *)
(*   st    sendStatus, "none" = undefined                                  *)
(*   rec   recalled (FALSE = undefined or false)                           *)
(*   txt   message / raw_message                                           *)
(* generateUUID draws a random v4 UUID; it is modelled as the next unused  *)
(* number of the counter nextId.                                           *)
(*                                                                         *)
(* Two further components are modelled on their own: the requests with a   *)
(* response of RunbotService (src/src/services/runbot.ts) and the Login    *)
(* component with the connection store (src/src/components/Login.vue,      *)
(* src/src/stores/connection.ts).                                          *)
(***************************************************************************)
EXTENDS Integers, Sequences, FiniteSets, TLC

VARIABLES
  chatType,   \* props.chatType, "none" = null
  chatId,     \* props.chatId, 0 = null
  messages,   \* messages.value, the record set of the open conversation
  sending,    \* sending.value
  nextId,     \* next unused local id
  db,         \* rows of the message store, keyed by lid
  loads,      \* loadChatMessages calls awaiting getMessages
  sends,      \* sendMessage calls suspended at an await
  handlers,   \* onMessage handler invocations suspended at an await
  outbox,     \* sends whose outbound request the backend accepted
  notices,    \* message ids whose recall notice the gateway has pushed
  budget,     \* remaining inputs of the environment
  apiResponseCallbacks, \* RunbotService.apiResponseCallbacks: echo -> call
                        \* whose callback is registered, 0 = no entry
  calls,      \* sendMessageWithResponse calls: echo, promise, timer, invoke
  storeStatus,      \* state.status.status of the connection store
  connectionStatus, \* connectionStatus.status as the Login component reads it
  hasSelfId,        \* hasSelfId.value of the Login component
  selfIdTimeout,    \* selfIdTimeout: "null", or a handle of a "live" or of
                    \* a "fired" timer
  orphans,          \* scheduled timers no handle refers to
  timeouts,         \* timer callbacks suspended at an await
  selfIdSaves,      \* runbot-self-id listeners awaiting saveConfig
  emitted           \* emit('connected') has been called

timelineVars == <<chatType, chatId, messages, sending, nextId, db, loads,
                  sends, handlers, outbox, notices>>

apiVars == <<apiResponseCallbacks, calls>>

loginVars == <<storeStatus, connectionStatus, hasSelfId, selfIdTimeout,
               orphans, timeouts, selfIdSaves, emitted>>

vars == <<chatType, chatId, messages, sending, nextId, db, loads, sends,
          handlers, outbox, notices, budget, apiVars, loginVars>>

\* ------------------------------------------------------------------------
\* Program constants

TIME_GROUP_THRESHOLD == 5 * 60

MaxGroupSize == 10

SelfId == 10000

\* ------------------------------------------------------------------------
\* Sequence helpers

Range(s) == {s[i] : i \in 1..Len(s)}

RECURSIVE FilterSeq(_, _)
FilterSeq(s, keep) ==
  IF s = <<>> THEN <<>>
  ELSE IF Head(s) \in keep THEN <<Head(s)>> \o FilterSeq(Tail(s), keep)
       ELSE FilterSeq(Tail(s), keep)

Abs(x) == IF x < 0 THEN -x ELSE x

\* Array.prototype.sort((a, b) => a.time - b.time): a stable sort by time.
RECURSIVE InsertByTime(_, _)
InsertByTime(sorted, m) ==
  IF sorted = <<>> THEN <<m>>
  ELSE IF Head(sorted).time <= m.time
       THEN <<Head(sorted)>> \o InsertByTime(Tail(sorted), m)
       ELSE <<m>> \o sorted

RECURSIVE SortByTimeFrom(_, _)
SortByTimeFrom(sorted, rest) ==
  IF rest = <<>> THEN sorted
  ELSE SortByTimeFrom(InsertByTime(sorted, Head(rest)), Tail(rest))

SortByTime(s) == SortByTimeFrom(<<>>, s)

\* ------------------------------------------------------------------------
\* Scope filter

\* The predicate of the filter callbacks in filteredMessages and
\* loadChatMessages.
InChat(msg, ct, ci) ==
  /\ msg.post \in {"message", "message_sent"}
  /\ \/ ct = "private" /\ msg.mtype = "private" /\ msg.uid = ci
     \/ ct = "group" /\ msg.mtype = "group" /\ msg.gid = ci

\* filteredMessages without the sort.
filteredMessagesUnsorted(msgs, ct, ci) ==
  IF ci = 0 \/ ct = "none" THEN <<>>
  ELSE FilterSeq(msgs, {m \in Range(msgs) : InChat(m, ct, ci)})

\* filteredMessages keeping received messages only.
filteredMessagesReceived(msgs, ct, ci) ==
  IF ci = 0 \/ ct = "none" THEN <<>>
  ELSE SortByTime(FilterSeq(msgs,
         {m \in Range(msgs) : InChat(m, ct, ci) /\ m.post = "message"}))

filteredMessagesOf(msgs, ct, ci) ==
  IF ci = 0 \/ ct = "none" THEN <<>>
  ELSE SortByTime(FilterSeq(msgs, {m \in Range(msgs) : InChat(m, ct, ci)}))

filteredMessages == filteredMessagesOf(messages, chatType, chatId)

\* ------------------------------------------------------------------------
\* Chronological grouper

getSenderId(msg) ==
  IF msg.post = "message_sent" THEN <<"self", 0>> ELSE <<"user", msg.uid>>

\* isSameTimeGroup with a strict comparison.
isSameTimeGroupStrict(time1, time2) == Abs(time1 - time2) < TIME_GROUP_THRESHOLD

isSameTimeGroup(time1, time2) == Abs(time1 - time2) <= TIME_GROUP_THRESHOLD

NewSenderGroup(msg) ==
  [senderId |-> getSenderId(msg),
   userId   |-> IF msg.post = "message_sent" THEN 0 ELSE msg.uid,
   messages |-> <<msg>>]

EmitGroup(ctg, csg, st) ==
  [time |-> ctg, senderId |-> csg.senderId, userId |-> csg.userId,
   messages |-> csg.messages, showSender |-> TRUE, showTime |-> st]

\* The loop body starting a sender group at every record.
GroupStepSplitAlways(w, msg) ==
  LET needNewTimeGroup ==
        w.ctg = -1 \/ ~isSameTimeGroup(msg.time, w.ctg)
  IN IF needNewTimeGroup
     THEN [groups |-> IF w.csg # <<>>
                      THEN Append(w.groups, EmitGroup(w.ctg, w.csg[1], TRUE))
                      ELSE w.groups,
           ctg |-> msg.time,
           csg |-> <<NewSenderGroup(msg)>>]
     ELSE [groups |-> IF w.csg # <<>>
                      THEN Append(w.groups, EmitGroup(w.ctg, w.csg[1], FALSE))
                      ELSE w.groups,
           ctg |-> w.ctg,
           csg |-> <<NewSenderGroup(msg)>>]

\* The loop body without the size cap of a sender group.
GroupStepNoCap(w, msg) ==
  LET needNewTimeGroup ==
        w.ctg = -1 \/ ~isSameTimeGroup(msg.time, w.ctg)
      needNewSenderGroup ==
        \/ needNewTimeGroup
        \/ w.csg = <<>>
        \/ w.csg[1].senderId # getSenderId(msg)
  IN IF needNewTimeGroup
     THEN [groups |-> IF w.csg # <<>>
                      THEN Append(w.groups, EmitGroup(w.ctg, w.csg[1], TRUE))
                      ELSE w.groups,
           ctg |-> msg.time,
           csg |-> <<NewSenderGroup(msg)>>]
     ELSE IF needNewSenderGroup
     THEN [groups |-> IF w.csg # <<>>
                      THEN Append(w.groups, EmitGroup(w.ctg, w.csg[1], FALSE))
                      ELSE w.groups,
           ctg |-> w.ctg,
           csg |-> <<NewSenderGroup(msg)>>]
     ELSE [groups |-> w.groups,
           ctg |-> w.ctg,
           csg |-> <<[w.csg[1] EXCEPT !.messages = Append(@, msg)]>>]

\* One iteration of the for loop. w = [groups, ctg, csg]: ctg is
\* currentTimeGroup (-1 = null), csg is currentSenderGroup (<<>> = null,
\* otherwise a one-element sequence).
GroupStep(w, msg) ==
  LET needNewTimeGroup ==
        w.ctg = -1 \/ ~isSameTimeGroup(msg.time, w.ctg)
      needNewSenderGroup ==
        \/ needNewTimeGroup
        \/ w.csg = <<>>
        \/ w.csg[1].senderId # getSenderId(msg)
        \/ Len(w.csg[1].messages) >= MaxGroupSize
  IN IF needNewTimeGroup
     THEN [groups |-> IF w.csg # <<>>
                      THEN Append(w.groups, EmitGroup(w.ctg, w.csg[1], TRUE))
                      ELSE w.groups,
           ctg |-> msg.time,
           csg |-> <<NewSenderGroup(msg)>>]
     ELSE IF needNewSenderGroup
     THEN [groups |-> IF w.csg # <<>>
                      THEN Append(w.groups, EmitGroup(w.ctg, w.csg[1], FALSE))
                      ELSE w.groups,
           ctg |-> w.ctg,
           csg |-> <<NewSenderGroup(msg)>>]
     ELSE [groups |-> w.groups,
           ctg |-> w.ctg,
           csg |-> <<[w.csg[1] EXCEPT !.messages = Append(@, msg)]>>]

RECURSIVE GroupWalk(_, _)
GroupWalk(w, rest) ==
  IF rest = <<>> THEN w ELSE GroupWalk(GroupStep(w, Head(rest)), Tail(rest))

\* groupedMessages without the push of the last sender group.
groupedMessagesOfNoLast(filtered) ==
  IF Len(filtered) = 0 THEN <<>>
  ELSE GroupWalk([groups |-> <<>>, ctg |-> -1, csg |-> <<>>], filtered).groups

groupedMessagesOf(filtered) ==
  IF Len(filtered) = 0 THEN <<>>
  ELSE LET w == GroupWalk([groups |-> <<>>, ctg |-> -1, csg |-> <<>>], filtered)
           n == Len(w.groups)
       IN IF w.csg # <<>>
          THEN Append(w.groups,
                 EmitGroup(w.ctg, w.csg[1],
                   IF n > 0 THEN ~isSameTimeGroup(w.ctg, w.groups[n].time)
                   ELSE TRUE))
          ELSE w.groups

groupedMessages == groupedMessagesOf(filteredMessages)

\* ------------------------------------------------------------------------
\* Bounds and input domains

MaxInputs == 4      \* conversation changes, submissions, push events and
                    \* rejected backend calls
MaxGroupLen == 4    \* records admitted in GroupSpec
MaxBurstLen == 11   \* records admitted in BurstSpec

Chats == {<<"private", 1001>>, <<"group", 2001>>}

SendTimes == {1402}

PushTimes == {1402}

AckIds == {42, 999}

Msg(lid, time, post, mtype, uid, gid, mid, st) ==
  [lid |-> lid, time |-> time, post |-> post, mtype |-> mtype, uid |-> uid,
   gid |-> gid, mid |-> mid, st |-> st, rec |-> FALSE, txt |-> "text"]

\* Rows stored by earlier sessions.
HistoryRows ==
  {Msg(1, 1000, "message", "private", 1001, 0, 101, "none"),
   Msg(2, 1002, "message", "private", 1001, 0, 102, "none"),
   Msg(3, 1400, "message_sent", "private", 1001, 0, 103, "sent")}

FirstFreshId == Cardinality(HistoryRows) + 1

\* Messages pushed by the gateway that other users sent.
ReceivedMsgs ==
  {Msg(0, t, "message", "private", 1001, 0, 104, "none") : t \in PushTimes}

RecallIds == {103, 104, 999}

\* ------------------------------------------------------------------------
\* Message store (Rust backend behind invoke; not part of the front end)

DbSave(rows, m) == {r \in rows : r.lid # m.lid} \cup {m}

DbSetMessageId(rows, lid, mid) ==
  {IF r.lid = lid THEN [r EXCEPT !.mid = mid, !.st = "sent"] ELSE r : r \in rows}

DbMarkRecalled(rows, mid) ==
  {IF r.mid = mid THEN [r EXCEPT !.rec = TRUE] ELSE r : r \in rows}

\* get_messages with userId or groupId set, as a list ordered by time.
RECURSIVE SetToSeq(_)
SetToSeq(S) ==
  IF S = {} THEN <<>>
  ELSE LET m == CHOOSE x \in S :
                  \A y \in S : x.time < y.time
                               \/ (x.time = y.time /\ x.lid <= y.lid)
       IN <<m>> \o SetToSeq(S \ {m})

DbGetMessages(rows, ct, ci) ==
  SetToSeq({r \in rows : IF ct = "private" THEN r.uid = ci ELSE r.gid = ci})

\* A backend call settles: ok, or a rejection counted against the budget.
Settle(ok) ==
  /\ ok \/ budget > 0
  /\ budget' = IF ok THEN budget ELSE budget - 1

\* ------------------------------------------------------------------------
\* Record-set helpers

HasLid(msgs, lid) == \E i \in 1..Len(msgs) : msgs[i].lid = lid

\* Array.prototype.findIndex(msg => msg.localMessageId === lid), 0 = -1
FindIndexByLid(msgs, lid) ==
  IF HasLid(msgs, lid)
  THEN CHOOSE i \in 1..Len(msgs) :
         msgs[i].lid = lid /\ \A j \in 1..(i - 1) : msgs[j].lid # lid
  ELSE 0

\* Array.prototype.find(m => m.message_id === mid), as an index, 0 = none
FindIndexByMid(msgs, mid) ==
  IF \E i \in 1..Len(msgs) : msgs[i].mid = mid
  THEN CHOOSE i \in 1..Len(msgs) :
         msgs[i].mid = mid /\ \A j \in 1..(i - 1) : msgs[j].mid # mid
  ELSE 0

\* ------------------------------------------------------------------------
\* ChatArea operations

\* addMessage without the exists check.
addMessageToNoCheck(msgs, msg, ct, ci, id) ==
  LET isCurrentChat ==
        \/ ct = "private" /\ msg.mtype = "private" /\ msg.uid = ci
        \/ ct = "group" /\ msg.mtype = "group" /\ msg.gid = ci
      m == IF msg.lid = 0 THEN [msg EXCEPT !.lid = id] ELSE msg
  IN IF isCurrentChat /\ msg.post \in {"message", "message_sent"}
     THEN Append(msgs, m)
     ELSE msgs

\* addMessage overwriting the record that already has the local id.
addMessageToOverwrite(msgs, msg, ct, ci, id) ==
  LET isCurrentChat ==
        \/ ct = "private" /\ msg.mtype = "private" /\ msg.uid = ci
        \/ ct = "group" /\ msg.mtype = "group" /\ msg.gid = ci
      m == IF msg.lid = 0 THEN [msg EXCEPT !.lid = id] ELSE msg
      exists == \E i \in 1..Len(msgs) : msgs[i].lid = m.lid /\ msgs[i].lid # 0
  IN IF isCurrentChat /\ msg.post \in {"message", "message_sent"}
     THEN IF ~exists THEN Append(msgs, m)
          ELSE [i \in 1..Len(msgs) |-> IF msgs[i].lid = m.lid THEN m ELSE msgs[i]]
     ELSE msgs

\* addMessage(msg) applied to a record set under the props (ct, ci); id is
\* the value generateUUID would return.
addMessageTo(msgs, msg, ct, ci, id) ==
  LET isCurrentChat ==
        \/ ct = "private" /\ msg.mtype = "private" /\ msg.uid = ci
        \/ ct = "group" /\ msg.mtype = "group" /\ msg.gid = ci
      m == IF msg.lid = 0 THEN [msg EXCEPT !.lid = id] ELSE msg
      exists == \E i \in 1..Len(msgs) : msgs[i].lid = m.lid /\ msgs[i].lid # 0
  IN IF isCurrentChat /\ msg.post \in {"message", "message_sent"}
     THEN IF ~exists THEN Append(msgs, m) ELSE msgs
     ELSE msgs

\* loadChatMessages up to the await of getMessages, called under the props
\* (ct, ci); props.selfId is set. rows is what the store, holding stored,
\* has for the request when it is issued; by names the caller ("watch" or
\* "recall").
StartLoad(ct, ci, stored, by) ==
  IF ci = 0 \/ ct = "none" THEN loads
  ELSE loads \cup {[ct |-> ct, ci |-> ci, by |-> by,
                    rows |-> DbGetMessages(stored, ct, ci)]}

\* watch(() => [props.chatId, props.chatType], ..., { immediate: true })
SelectChat(c) ==
  /\ budget > 0
  /\ c # <<chatType, chatId>>
  /\ chatType' = c[1]
  /\ chatId' = c[2]
  /\ IF c[2] # 0 /\ c[1] # "none"
     THEN /\ loads' = StartLoad(c[1], c[2], db, "watch")
          /\ messages' = messages
     ELSE /\ messages' = <<>>
          /\ loads' = loads
  /\ budget' = budget - 1
  /\ UNCHANGED <<sending, nextId, db, sends, handlers, outbox>>
  /\ UNCHANGED notices
  /\ UNCHANGED <<apiVars, loginVars>>

\* loadChatMessages after the await. The backend answered get_messages from
\* the rows it held at some moment between the request and the response:
\* the rows of the request time (late = FALSE) or those of the response time
\* (late = TRUE). They are filtered under the props of the response time and
\* replace messages.value.
LoadComplete(l, late) ==
  /\ l \in loads
  /\ LET chatMessages == IF late THEN DbGetMessages(db, l.ct, l.ci) ELSE l.rows
     IN messages' = FilterSeq(chatMessages,
                      {m \in Range(chatMessages) : InChat(m, chatType, chatId)})
  /\ loads' = loads \ {l}
  /\ UNCHANGED <<chatType, chatId, sending, nextId, db, sends, handlers,
                 outbox, budget>>
  /\ UNCHANGED notices
  /\ UNCHANGED <<apiVars, loginVars>>

\* getMessages rejects: the catch block logs and leaves messages.value alone.
LoadFail(l) ==
  /\ l \in loads
  /\ Settle(FALSE)
  /\ loads' = loads \ {l}
  /\ UNCHANGED <<chatType, chatId, messages, sending, nextId, db, sends,
                 handlers, outbox>>
  /\ UNCHANGED notices
  /\ UNCHANGED <<apiVars, loginVars>>

\* sendMessage up to the await of saveMessage: the local record is built
\* and pushed, and its JSON is handed to save_message.
SendStart(now) ==
  /\ budget > 0
  /\ chatId # 0 /\ chatType # "none" /\ ~sending
  /\ LET localMessage ==
           Msg(nextId, now, "message_sent", chatType,
               IF chatType = "private" THEN chatId ELSE SelfId,
               IF chatType = "group" THEN chatId ELSE 0,
               0, "sending")
     IN /\ messages' = Append(messages, localMessage)
        /\ sends' = sends \cup {[msg |-> localMessage, pc |-> "save",
                                 to |-> <<"none", 0>>]}
  /\ nextId' = nextId + 1
  /\ budget' = budget - 1
  /\ UNCHANGED <<chatType, chatId, sending, db, loads, handlers, outbox>>
  /\ UNCHANGED notices
  /\ UNCHANGED <<apiVars, loginVars>>

\* saveMessage settles (ok: the row is stored; otherwise the error is
\* logged), then sending is set and the outbound request is issued for the
\* conversation the props name at that moment (s.to).
SendSaved(s, ok) ==
  /\ s \in sends
  /\ s.pc = "save"
  /\ Settle(ok)
  /\ db' = IF ok THEN DbSave(db, s.msg) ELSE db
  /\ IF chatType \in {"private", "group"}
     THEN /\ sending' = TRUE
          /\ sends' = (sends \ {s}) \cup
                        {[s EXCEPT !.pc = "send", !.to = <<chatType, chatId>>]}
     ELSE /\ sending' = FALSE
          /\ sends' = sends \ {s}
  /\ UNCHANGED <<chatType, chatId, messages, nextId, loads, handlers, outbox>>
  /\ UNCHANGED notices
  /\ UNCHANGED <<apiVars, loginVars>>

\* The catch block of the outbound request on a record set: the record
\* with the local id of the send, when there is one, is marked failed.
sendFailedIn(msgs, localMessageId) ==
  LET index == FindIndexByLid(msgs, localMessageId)
  IN IF index # 0
     THEN [msgs EXCEPT ![index].st = "failed"]
     ELSE msgs

\* The outbound request settles: on rejection the record with the local id
\* is marked failed; sending is cleared in either case.
SendDone(s, ok) ==
  /\ s \in sends
  /\ s.pc = "send"
  /\ Settle(ok)
  /\ sends' = sends \ {s}
  /\ sending' = FALSE
  /\ IF ok
     THEN /\ outbox' = outbox \cup {[msg |-> s.msg, to |-> s.to, ack |-> 0,
                                     echoed |-> FALSE]}
          /\ messages' = messages
     ELSE /\ outbox' = outbox
          /\ messages' = sendFailedIn(messages, s.msg.lid)
  /\ UNCHANGED <<chatType, chatId, nextId, db, loads, handlers>>
  /\ UNCHANGED notices
  /\ UNCHANGED <<apiVars, loginVars>>

\* The message-sent callback without the message_id assignment.
messageSentInStatusOnly(msgs, local_message_id, message_id) ==
  LET messageIndex == FindIndexByLid(msgs, local_message_id)
  IN IF messageIndex # 0
     THEN [msgs EXCEPT ![messageIndex].st = "sent"]
     ELSE msgs

\* The message-sent callback adding a record when none has the local id.
messageSentInUpsert(msgs, local_message_id, message_id) ==
  LET messageIndex == FindIndexByLid(msgs, local_message_id)
  IN IF messageIndex # 0
     THEN [msgs EXCEPT ![messageIndex].st = "sent",
                       ![messageIndex].mid = message_id]
     ELSE Append(msgs, Msg(local_message_id, 0, "message_sent", "private",
                           0, 0, message_id, "sent"))

\* The callback of listen('message-sent') on a record set.
messageSentIn(msgs, local_message_id, message_id) ==
  LET messageIndex == FindIndexByLid(msgs, local_message_id)
  IN IF messageIndex # 0
     THEN [msgs EXCEPT ![messageIndex].st = "sent",
                       ![messageIndex].mid = message_id]
     ELSE msgs

\* The backend has stored the gateway id of an accepted send and emits
\* message-sent; o.ack keeps the id it reported.
MessageSent(o, message_id) ==
  /\ o \in outbox
  /\ o.ack = 0
  /\ \A p \in outbox : p.ack # message_id
  /\ messages' = messageSentIn(messages, o.msg.lid, message_id)
  /\ db' = DbSetMessageId(db, o.msg.lid, message_id)
  /\ outbox' = (outbox \ {o}) \cup {[o EXCEPT !.ack = message_id]}
  /\ UNCHANGED <<chatType, chatId, sending, nextId, loads, sends, handlers,
                 budget>>
  /\ UNCHANGED notices
  /\ UNCHANGED <<apiVars, loginVars>>

\* onMessage handler of the main view up to the await of saveMessage, for an
\* event of post_type message or message_sent: a missing localMessageId is
\* generated first.
HandleMessage(message) ==
  /\ budget > 0
  /\ LET m == IF message.lid = 0 THEN [message EXCEPT !.lid = nextId]
              ELSE message
     IN handlers' = handlers \cup {[kind |-> "message", msg |-> m, mid |-> 0]}
  /\ nextId' = IF message.lid = 0 THEN nextId + 1 ELSE nextId
  /\ budget' = budget - 1
  /\ UNCHANGED <<chatType, chatId, messages, sending, db, loads, sends>>
  /\ UNCHANGED notices
  /\ UNCHANGED <<apiVars, loginVars>>

\* A message of another user arrives; the gateway delivers a message id
\* once.
OnMessage(message) ==
  /\ \A h \in handlers : h.kind = "message" => h.msg.mid # message.mid
  /\ \A r \in db : r.mid # message.mid
  /\ \A i \in 1..Len(messages) : messages[i].mid # message.mid
  /\ message.mid \notin notices
  /\ HandleMessage(message)
  /\ UNCHANGED outbox

\* The gateway reports a message this session sent (post_type message_sent)
\* to the conversation o.to; the backend attaches the local id of the send.
OnEcho(o, t) ==
  /\ o \in outbox
  /\ ~o.echoed
  /\ outbox' = (outbox \ {o}) \cup {[o EXCEPT !.echoed = TRUE]}
  /\ HandleMessage(Msg(o.msg.lid, t, "message_sent", o.to[1],
                       IF o.to[1] = "private" THEN o.to[2] ELSE SelfId,
                       IF o.to[1] = "group" THEN o.to[2] ELSE 0,
                       0, "none"))

\* The handler returning from the catch block of saveMessage.
OnMessageSavedFatal(h, ok) ==
  /\ h \in handlers
  /\ h.kind = "message"
  /\ Settle(ok)
  /\ handlers' = handlers \ {h}
  /\ db' = IF ok THEN DbSave(db, h.msg) ELSE db
  /\ messages' = IF ok
                 THEN addMessageTo(messages, h.msg, chatType, chatId, nextId)
                 ELSE messages
  /\ UNCHANGED <<chatType, chatId, sending, nextId, loads, sends, outbox>>
  /\ UNCHANGED notices
  /\ UNCHANGED <<apiVars, loginVars>>

\* saveMessage of the handler settles; after nextTick the record is passed
\* to addMessage of the chat area.
OnMessageSaved(h, ok) ==
  /\ h \in handlers
  /\ h.kind = "message"
  /\ Settle(ok)
  /\ handlers' = handlers \ {h}
  /\ db' = IF ok THEN DbSave(db, h.msg) ELSE db
  /\ messages' = addMessageTo(messages, h.msg, chatType, chatId, nextId)
  /\ UNCHANGED <<chatType, chatId, sending, nextId, loads, sends, outbox>>
  /\ UNCHANGED notices
  /\ UNCHANGED <<apiVars, loginVars>>

\* onMessage handler for a notice with sub_type group_recall or
\* friend_recall, up to the await of markMessageRecalled.
OnRecallNotice(messageId) ==
  /\ budget > 0
  /\ messageId \notin notices
  /\ (\E m \in ReceivedMsgs : m.mid = messageId) =>
       \/ \E h \in handlers : h.kind = "message" /\ h.msg.mid = messageId
       \/ \E r \in db : r.mid = messageId
       \/ \E i \in 1..Len(messages) : messages[i].mid = messageId
  /\ notices' = notices \cup {messageId}
  /\ handlers' = handlers \cup {[kind |-> "recall", msg |-> <<>>, mid |-> messageId]}
  /\ budget' = budget - 1
  /\ UNCHANGED <<chatType, chatId, messages, sending, nextId, db, loads, sends,
                 outbox>>
  /\ UNCHANGED <<apiVars, loginVars>>

\* handleMessageRecalled looking the record up by localMessageId.
handleMessageRecalledByLid(msgs, messageId) ==
  LET i == FindIndexByLid(msgs, messageId)
  IN IF i # 0
     THEN [msgs |-> [msgs EXCEPT ![i].rec = TRUE], reload |-> FALSE]
     ELSE [msgs |-> msgs, reload |-> TRUE]

\* handleMessageRecalled without the reload of the else branch.
handleMessageRecalledNoReload(msgs, messageId) ==
  LET i == FindIndexByMid(msgs, messageId)
  IN IF i # 0
     THEN [msgs |-> [msgs EXCEPT ![i].rec = TRUE], reload |-> FALSE]
     ELSE [msgs |-> msgs, reload |-> FALSE]

\* handleMessageRecalled flipping the recalled flag of the record.
handleMessageRecalledToggle(msgs, messageId) ==
  LET i == FindIndexByMid(msgs, messageId)
  IN IF i # 0
     THEN [msgs |-> [msgs EXCEPT ![i].rec = ~msgs[i].rec], reload |-> FALSE]
     ELSE [msgs |-> msgs, reload |-> TRUE]

\* handleMessageRecalled(messageId) on a record set: the first record with
\* that message_id is marked; when there is none the set is left alone and
\* reload is TRUE (loadChatMessages is called).
handleMessageRecalledIn(msgs, messageId) ==
  LET i == FindIndexByMid(msgs, messageId)
  IN IF i # 0
     THEN [msgs |-> [msgs EXCEPT ![i].rec = TRUE], reload |-> FALSE]
     ELSE [msgs |-> msgs, reload |-> TRUE]

\* markMessageRecalled settles. On success, after nextTick,
\* handleMessageRecalled runs; on rejection the catch block only logs.
OnRecallMarked(h, ok) ==
  /\ h \in handlers
  /\ h.kind = "recall"
  /\ Settle(ok)
  /\ handlers' = handlers \ {h}
  /\ IF ok
     THEN LET r == handleMessageRecalledIn(messages, h.mid)
          IN /\ db' = DbMarkRecalled(db, h.mid)
             /\ messages' = r.msgs
             /\ loads' = IF r.reload
                         THEN StartLoad(chatType, chatId,
                                        DbMarkRecalled(db, h.mid), "recall")
                         ELSE loads
     ELSE UNCHANGED <<db, messages, loads>>
  /\ UNCHANGED <<chatType, chatId, sending, nextId, sends, outbox>>
  /\ UNCHANGED notices
  /\ UNCHANGED <<apiVars, loginVars>>

\* ------------------------------------------------------------------------
\* Requests with a response (RunbotService, src/src/services/runbot.ts)
\*
\* A call is a record: echo, the echo string it generated; promise, the
\* state of the promise it returned ("pending", "resolved", "rejected";
\* resolve and reject have no effect on a settled promise); timer, whether
\* its timeout is scheduled; invoke, the state of the promise of
\* invoke('send_runbot_message') ("pending", "done", "failed").

MaxCalls == 2       \* calls of sendMessageWithResponse
MaxResponses == 2   \* API responses the gateway pushes

\* `${action}-${Date.now()}-${random}`: two calls of the same millisecond
\* can draw the same string.
Echoes == {"e1", "e2"}

ServiceSetup ==
  /\ apiResponseCallbacks = [e \in Echoes |-> 0]
  /\ calls = <<>>

\* reject(...) of the promise of call c
RejectCall(cs, c) ==
  IF cs[c].promise = "pending" THEN [cs EXCEPT ![c].promise = "rejected"] ELSE cs

\* resolve(data) of the promise of call c
ResolveCall(cs, c) ==
  IF cs[c].promise = "pending" THEN [cs EXCEPT ![c].promise = "resolved"] ELSE cs

\* sendMessageWithResponse up to the return of the promise: the timeout is
\* scheduled, the callback registered under echo and the request issued.
SendMessageWithResponse(echo) ==
  /\ Len(calls) < MaxCalls
  /\ calls' = Append(calls, [echo |-> echo, promise |-> "pending",
                             timer |-> TRUE, invoke |-> "pending"])
  /\ apiResponseCallbacks' = [apiResponseCallbacks EXCEPT ![echo] = Len(calls) + 1]
  /\ UNCHANGED <<timelineVars, loginVars, budget>>

\* handleApiResponse(message) for a message carrying echo: the registered
\* callback, when there is one, clears the timeout of its call, removes the
\* entry and resolves.
HandleApiResponse(echo) ==
  /\ budget > 0
  /\ budget' = budget - 1
  /\ LET c == apiResponseCallbacks[echo]
     IN IF c # 0
        THEN /\ calls' = ResolveCall([calls EXCEPT ![c].timer = FALSE], c)
             /\ apiResponseCallbacks' = [apiResponseCallbacks EXCEPT ![echo] = 0]
        ELSE UNCHANGED <<calls, apiResponseCallbacks>>
  /\ UNCHANGED <<timelineVars, loginVars>>

\* The timeout callback keeping the entry of the map.
TimeoutFiresKeep(c) ==
  /\ c \in 1..Len(calls)
  /\ calls[c].timer
  /\ calls' = RejectCall([calls EXCEPT ![c].timer = FALSE], c)
  /\ UNCHANGED apiResponseCallbacks
  /\ UNCHANGED <<timelineVars, loginVars, budget>>

\* The timeout of call c expires: the entry under its echo is removed and
\* the promise rejected.
TimeoutFires(c) ==
  /\ c \in 1..Len(calls)
  /\ calls[c].timer
  /\ calls' = RejectCall([calls EXCEPT ![c].timer = FALSE], c)
  /\ apiResponseCallbacks' = [apiResponseCallbacks EXCEPT ![calls[c].echo] = 0]
  /\ UNCHANGED <<timelineVars, loginVars, budget>>

\* invoke('send_runbot_message') of call c settles; on rejection the catch
\* callback clears the timeout, removes the entry under the echo of the call
\* and rejects.
InvokeSettles(c, ok) ==
  /\ c \in 1..Len(calls)
  /\ calls[c].invoke = "pending"
  /\ IF ok
     THEN /\ calls' = [calls EXCEPT ![c].invoke = "done"]
          /\ UNCHANGED apiResponseCallbacks
     ELSE /\ calls' = RejectCall([calls EXCEPT ![c].invoke = "failed",
                                               ![c].timer = FALSE], c)
          /\ apiResponseCallbacks' =
               [apiResponseCallbacks EXCEPT ![calls[c].echo] = 0]
  /\ UNCHANGED <<timelineVars, loginVars, budget>>

\* ------------------------------------------------------------------------
\* Login component (src/src/components/Login.vue) and the connection store
\* (src/src/stores/connection.ts)

MaxEvents == 5      \* status events, self_id events, timer expiries, clicks

Statuses == {"disconnected", "connecting", "connected", "error"}

SelfIds == {0, SelfId}

\* The store starts disconnected; useConnectionState() hands the component
\* readonly(state.status), the status object of that moment.
LoginSetup ==
  /\ storeStatus = "disconnected"
  /\ connectionStatus = "disconnected"
  /\ hasSelfId = FALSE
  /\ selfIdTimeout = "null"
  /\ orphans = 0
  /\ timeouts = 0
  /\ selfIdSaves = 0
  /\ emitted = FALSE

\* A runbot-status event. The listener of the store assigns a new status
\* object to state.status; the object the component holds is not written.
\* Then the listener of the component runs: if (selfIdTimeout)
\* { clearTimeout(selfIdTimeout); selfIdTimeout = null } in every branch,
\* and on connected either emit or a new timer.
StatusChange(status) ==
  /\ budget > 0
  /\ budget' = budget - 1
  /\ storeStatus' = status
  /\ IF status = "connected"
     THEN /\ emitted' = (emitted \/ hasSelfId)
          /\ selfIdTimeout' = IF hasSelfId THEN "null" ELSE "live"
          /\ hasSelfId' = hasSelfId
     ELSE /\ emitted' = emitted
          /\ selfIdTimeout' = "null"
          /\ hasSelfId' = FALSE
  /\ UNCHANGED <<connectionStatus, orphans, timeouts, selfIdSaves>>
  /\ UNCHANGED <<timelineVars, apiVars>>

\* A runbot-self-id event, up to the await of saveConfig for a valid id; an
\* invalid id only asks the backend to disconnect.
SelfIdEvent(selfId) ==
  /\ budget > 0
  /\ budget' = budget - 1
  /\ IF selfId > 0
     THEN /\ selfIdTimeout' = "null"
          /\ hasSelfId' = TRUE
          /\ selfIdSaves' = selfIdSaves + 1
     ELSE UNCHANGED <<selfIdTimeout, hasSelfId, selfIdSaves>>
  /\ UNCHANGED <<storeStatus, connectionStatus, orphans, timeouts, emitted>>
  /\ UNCHANGED <<timelineVars, apiVars>>

\* saveConfig of the runbot-self-id listener settles; on rejection the
\* listener ends with the exception, otherwise it emits when
\* connectionStatus.status is connected.
SelfIdSaved(ok) ==
  /\ selfIdSaves > 0
  /\ Settle(ok)
  /\ selfIdSaves' = selfIdSaves - 1
  /\ emitted' = (emitted \/ (ok /\ connectionStatus = "connected"))
  /\ UNCHANGED <<storeStatus, connectionStatus, hasSelfId, selfIdTimeout,
                 orphans, timeouts>>
  /\ UNCHANGED <<timelineVars, apiVars>>

\* A scheduled self_id timer expires (after SELF_ID_TIMEOUT): the callback
\* resets hasSelfId and awaits disconnect and updateConfig.
TimerFires ==
  /\ budget > 0
  /\ budget' = budget - 1
  /\ \/ /\ selfIdTimeout = "live"
        /\ selfIdTimeout' = "fired"
        /\ orphans' = orphans
     \/ /\ orphans > 0
        /\ orphans' = orphans - 1
        /\ selfIdTimeout' = selfIdTimeout
  /\ hasSelfId' = FALSE
  /\ timeouts' = timeouts + 1
  /\ UNCHANGED <<storeStatus, connectionStatus, selfIdSaves, emitted>>
  /\ UNCHANGED <<timelineVars, apiVars>>

\* The timer callback resumes after its awaits: selfIdTimeout = null. A
\* timer scheduled in between stays scheduled without a handle.
TimeoutDone ==
  /\ timeouts > 0
  /\ timeouts' = timeouts - 1
  /\ selfIdTimeout' = "null"
  /\ orphans' = IF selfIdTimeout = "live" THEN orphans + 1 ELSE orphans
  /\ UNCHANGED <<storeStatus, connectionStatus, hasSelfId, selfIdSaves,
                 emitted, budget>>
  /\ UNCHANGED <<timelineVars, apiVars>>

\* handleConnect up to its first await, with a URL entered.
HandleConnect ==
  /\ budget > 0
  /\ budget' = budget - 1
  /\ selfIdTimeout' = "null"
  /\ hasSelfId' = FALSE
  /\ UNCHANGED <<storeStatus, connectionStatus, orphans, timeouts,
                 selfIdSaves, emitted>>
  /\ UNCHANGED <<timelineVars, apiVars>>

\* ------------------------------------------------------------------------
\* The program

\* The chat area after setup: no conversation, the store holds the history.
TimelineSetup ==
  /\ chatType = "none"
  /\ chatId = 0
  /\ messages = <<>>
  /\ sending = FALSE
  /\ nextId = FirstFreshId
  /\ db = HistoryRows
  /\ loads = {}
  /\ sends = {}
  /\ handlers = {}
  /\ outbox = {}
  /\ notices = {}

Init ==
  /\ TimelineSetup
  /\ ServiceSetup
  /\ LoginSetup
  /\ budget = MaxInputs

Next ==
  \/ \E c \in Chats : SelectChat(c)
  \/ \E l \in loads, late \in BOOLEAN : LoadComplete(l, late)
  \/ \E l \in loads : LoadFail(l)
  \/ \E now \in SendTimes : SendStart(now)
  \/ \E s \in sends, ok \in BOOLEAN : SendSaved(s, ok)
  \/ \E s \in sends, ok \in BOOLEAN : SendDone(s, ok)
  \/ \E o \in outbox, r \in AckIds : MessageSent(o, r)
  \/ \E m \in ReceivedMsgs : OnMessage(m)
  \/ \E o \in outbox, t \in PushTimes : OnEcho(o, t)
  \/ \E h \in handlers, ok \in BOOLEAN : OnMessageSaved(h, ok)
  \/ \E r \in RecallIds : OnRecallNotice(r)
  \/ \E h \in handlers, ok \in BOOLEAN : OnRecallMarked(h, ok)

Spec == Init /\ [][Next]_vars

\* ------------------------------------------------------------------------
\* The grouper on arbitrary admitted records. The conversation private/1001
\* is open on an empty store and the parent passes records to addMessage
\* directly, in any order of their timestamps.

GroupTimes == {1000, 1299, 1300, 1301, 1601}

GroupInputs ==
  {Msg(0, t, "message", "private", 1001, 0, 0, "none") : t \in GroupTimes}
    \cup {Msg(0, t, "message_sent", "private", 1001, 0, 0, "none") : t \in GroupTimes}

\* defineExpose({ addMessage }): the parent calls addMessage(msg).
AddMessage(msg) ==
  /\ messages' = addMessageTo(messages, msg, chatType, chatId, nextId)
  /\ nextId' = IF msg.lid = 0 THEN nextId + 1 ELSE nextId
  /\ UNCHANGED <<chatType, chatId, sending, db, loads, sends, handlers,
                 outbox, budget>>
  /\ UNCHANGED notices
  /\ UNCHANGED <<apiVars, loginVars>>

GroupInit ==
  /\ chatType = "private"
  /\ chatId = 1001
  /\ messages = <<>>
  /\ sending = FALSE
  /\ nextId = 1
  /\ db = {}
  /\ loads = {}
  /\ sends = {}
  /\ handlers = {}
  /\ outbox = {}
  /\ notices = {}
  /\ ServiceSetup
  /\ LoginSetup
  /\ budget = 0

GroupNext ==
  \E m \in GroupInputs : Len(messages) < MaxGroupLen /\ AddMessage(m)

GroupSpec == GroupInit /\ [][GroupNext]_vars

\* Long runs: after the first record every record is sent by the user, and
\* timestamps arrive in non-decreasing order.

BurstTimes == {1000, 1150, 1300, 1450}

BurstInputs ==
  {Msg(0, t, "message", "private", 1001, 0, 0, "none") : t \in BurstTimes}
    \cup {Msg(0, t, "message_sent", "private", 1001, 0, 0, "none") : t \in BurstTimes}

BurstNext ==
  \E m \in BurstInputs :
    /\ Len(messages) < MaxBurstLen
    /\ messages # <<>> =>
         m.post = "message_sent" /\ m.time >= messages[Len(messages)].time
    /\ AddMessage(m)

BurstSpec == GroupInit /\ [][BurstNext]_vars

\* ------------------------------------------------------------------------
\* The request service alone: calls, responses of the gateway for any echo,
\* timeouts and settlements of invoke, in any order.

ApiInit ==
  /\ TimelineSetup
  /\ ServiceSetup
  /\ LoginSetup
  /\ budget = MaxResponses

ApiNext ==
  \/ \E e \in Echoes : SendMessageWithResponse(e)
  \/ \E e \in Echoes : HandleApiResponse(e)
  \/ \E c \in 1..MaxCalls : TimeoutFires(c)
  \/ \E c \in 1..MaxCalls, ok \in BOOLEAN : InvokeSettles(c, ok)

\* setTimeout callbacks run once their delay has passed.
ApiSpec ==
  ApiInit /\ [][ApiNext]_vars /\ WF_vars(\E c \in 1..MaxCalls : TimeoutFires(c))

\* ------------------------------------------------------------------------
\* The Login component alone, from its setup on.

LoginInit ==
  /\ TimelineSetup
  /\ ServiceSetup
  /\ LoginSetup
  /\ budget = MaxEvents

LoginNext ==
  \/ \E st \in Statuses : StatusChange(st)
  \/ \E id \in SelfIds : SelfIdEvent(id)
  \/ \E ok \in BOOLEAN : SelfIdSaved(ok)
  \/ TimerFires
  \/ TimeoutDone
  \/ HandleConnect

\* A listener suspended at an await resumes when the awaited call settles.
LoginSpec ==
  LoginInit /\ [][LoginNext]_vars
    /\ WF_vars(\E ok \in BOOLEAN : SelfIdSaved(ok))
    /\ WF_vars(TimeoutDone)

\* ------------------------------------------------------------------------
\* Properties

\* Indexes of the records of a record set that carry the local id lid.
WithLid(msgs, lid) == {i \in 1..Len(msgs) : msgs[i].lid = lid}

\* C1 (dedup invariant): in every reachable state at most one record of
\* messages carries any given localMessageId.
DedupInvariant ==
  \A i, j \in 1..Len(messages) :
    (messages[i].lid # 0 /\ messages[i].lid = messages[j].lid) => i = j

\* The correlated echo of an acknowledged optimistic send has been handled
\* and the record set holds the history and that send.
DedupWitness ==
  \E o \in outbox :
    /\ o.echoed /\ o.ack # 0
    /\ handlers = {}
    /\ nextId = FirstFreshId + 1
    /\ Cardinality(WithLid(messages, o.msg.lid)) = 1
    /\ Len(messages) = 4

\* C2 (dedup idempotence): when the handler passes addMessage a record whose
\* localMessageId is already in messages, messages is left as it was: no
\* record is added and no field of the existing record changes.
DedupIdempotence ==
  [][\A h \in handlers :
       (/\ h.kind = "message"
        /\ handlers' = handlers \ {h}
        /\ HasLid(messages, h.msg.lid))
       => messages' = messages]_vars

\* The correlated echo of a send was rejected while the optimistic record
\* is still pending.
IdempotenceWitness ==
  \E o \in outbox :
    /\ o.echoed /\ o.ack = 0
    /\ handlers = {}
    /\ nextId = FirstFreshId + 1
    /\ \E i \in 1..Len(messages) :
         messages[i].lid = o.msg.lid /\ messages[i].st = "sending"

\* ------------------------------------------------------------------------
\* Properties of the grouper

\* The records of all clusters, in cluster order then intra-cluster order.
RECURSIVE FlattenGroups(_)
FlattenGroups(gs) ==
  IF gs = <<>> THEN <<>> ELSE Head(gs).messages \o FlattenGroups(Tail(gs))

\* Position, in the flattened list, of the first record of cluster k.
RECURSIVE FirstPos(_, _)
FirstPos(gs, k) ==
  IF k = 1 THEN 1 ELSE FirstPos(gs, k - 1) + Len(gs[k - 1].messages)

\* The cluster that holds the record at position p of the flattened list.
ClusterOf(gs, p) ==
  CHOOSE k \in 1..Len(gs) :
    FirstPos(gs, k) <= p /\ p < FirstPos(gs, k) + Len(gs[k].messages)

\* Anchor of the time bucket that holds record i of the time-sorted list f:
\* the first record, or the latest record up to i that is more than 300 s
\* after the anchor before it.
RECURSIVE AnchorAt(_, _)
AnchorAt(f, i) ==
  IF i = 1 THEN f[1].time
  ELSE LET a == AnchorAt(f, i - 1)
       IN IF f[i].time - a > 300 THEN f[i].time ELSE a

OpensBucketAt(f, i) == i = 1 \/ f[i].time - AnchorAt(f, i - 1) > 300

\* C3 (grouper ordering): the records of all emitted clusters, in cluster
\* order then intra-cluster order, are non-decreasing by timestamp, whatever
\* order the records were admitted in.
GrouperOrdering ==
  LET c == FlattenGroups(groupedMessages)
  IN \A i \in 1..(Len(c) - 1) : c[i].time <= c[i + 1].time

\* Records were admitted out of timestamp order and are rendered in more
\* than one cluster.
GrouperOrderingWitness ==
  /\ Len(groupedMessages) >= 2
  /\ \E i \in 1..(Len(messages) - 1) : messages[i].time > messages[i + 1].time

\* C4 (time header on a new bucket): every cluster whose first record opens
\* a new time bucket is emitted with showTime = TRUE.
TimeHeaderOnNewBucket ==
  LET gs == groupedMessages
  IN \A k \in 1..Len(gs) :
       OpensBucketAt(filteredMessages, FirstPos(gs, k)) => gs[k].showTime

\* C5 as claimed: two records adjacent in timestamp order with the same
\* sender and at most 299 s apart have no bucket boundary between them, and
\* are in different clusters only when the earlier cluster holds 10 records.
AdjacentWithin299 ==
  LET f == filteredMessages
      gs == groupedMessages
  IN \A i \in 1..(Len(f) - 1) :
       (/\ getSenderId(f[i]) = getSenderId(f[i + 1])
        /\ f[i + 1].time - f[i].time <= 299)
       => /\ ~OpensBucketAt(f, i + 1)
          /\ ClusterOf(gs, i) # ClusterOf(gs, i + 1)
               => Len(gs[ClusterOf(gs, i)].messages) = 10

\* C5 as amended: the same, for pairs whose later record is also at most
\* 300 s after the anchor of the bucket that holds the earlier record.
AdjacentWithinAnchor ==
  LET f == filteredMessages
      gs == groupedMessages
  IN \A i \in 1..(Len(f) - 1) :
       (/\ getSenderId(f[i]) = getSenderId(f[i + 1])
        /\ f[i + 1].time - f[i].time <= 299
        /\ f[i + 1].time - AnchorAt(f, i) <= 300)
       => /\ ~OpensBucketAt(f, i + 1)
          /\ ClusterOf(gs, i) # ClusterOf(gs, i + 1)
               => Len(gs[ClusterOf(gs, i)].messages) = 10

\* An eleventh record of the same sender, inside the bucket, starts a second
\* cluster after one of 10 records.
AdjacentWitness ==
  LET f == filteredMessages
      gs == groupedMessages
  IN \E i \in 1..(Len(f) - 1) :
       /\ getSenderId(f[i]) = getSenderId(f[i + 1])
       /\ f[i + 1].time - f[i].time <= 299
       /\ f[i + 1].time - AnchorAt(f, i) <= 300
       /\ f[i + 1].time > f[i].time
       /\ ClusterOf(gs, i) # ClusterOf(gs, i + 1)
       /\ Len(gs[ClusterOf(gs, i)].messages) = 10

\* C19 (time header only on a new bucket): a cluster is emitted with
\* showTime = TRUE only if its first record opened a new time bucket.
TimeHeaderOnlyOnNewBucket ==
  LET gs == groupedMessages
      f == filteredMessages
  IN \A k \in 1..Len(gs) :
       gs[k].showTime => OpensBucketAt(f, FirstPos(gs, k))

\* C20 (cluster shape): every emitted cluster holds between 1 and 10
\* records, all from the sender the cluster names, every record is within
\* 300 s of the cluster's bucket timestamp, and showSender is TRUE.
ClusterShape ==
  LET gs == groupedMessages
  IN \A k \in 1..Len(gs) :
       /\ Len(gs[k].messages) >= 1
       /\ Len(gs[k].messages) <= 10
       /\ \A i \in 1..Len(gs[k].messages) :
            /\ getSenderId(gs[k].messages[i]) = gs[k].senderId
            /\ Abs(gs[k].messages[i].time - gs[k].time) <= 300
       /\ gs[k].showSender

\* A cluster of 10 records is followed, in the same bucket, by a cluster of
\* the same sender.
ClusterShapeWitness ==
  LET gs == groupedMessages
  IN \E k \in 1..(Len(gs) - 1) :
       /\ Len(gs[k].messages) = 10
       /\ gs[k + 1].senderId = gs[k].senderId
       /\ gs[k + 1].time = gs[k].time

\* C21 (cluster maximality): two consecutive clusters with the same bucket
\* timestamp and the same sender id occur only when the earlier one holds
\* exactly 10 records.
ClusterMaximal ==
  LET gs == groupedMessages
  IN \A k \in 1..(Len(gs) - 1) :
       (gs[k].time = gs[k + 1].time /\ gs[k].senderId = gs[k + 1].senderId)
       => Len(gs[k].messages) = 10

\* Eleven records of one sender inside one bucket are rendered as a cluster
\* of 10 and a cluster of 1.
ClusterMaximalWitness ==
  LET gs == groupedMessages
  IN /\ Len(messages) = 11
     /\ Len(gs) = 2
     /\ gs[1].time = gs[2].time /\ gs[1].senderId = gs[2].senderId
     /\ Len(gs[1].messages) = 10 /\ Len(gs[2].messages) = 1

\* C24 (grouping is a partition): the records of the emitted clusters, in
\* cluster order then intra-cluster order, are exactly the time-sorted
\* visible list: every visible record is in one cluster once and no other
\* record is in a cluster.
GroupingPartition ==
  FlattenGroups(groupedMessages) = filteredMessages

\* Four records admitted out of timestamp order are rendered in three or
\* more clusters.
GroupingPartitionWitness ==
  /\ Len(filteredMessages) = 4
  /\ Len(groupedMessages) >= 3
  /\ \E i \in 1..(Len(messages) - 1) : messages[i].time > messages[i + 1].time

\* ------------------------------------------------------------------------
\* Properties of the mutations

\* C6 (optimistic-to-acknowledged convergence): when message-sent arrives
\* for the local id of a record that is still sending, the record set then
\* holds exactly one record with that local id, with sendStatus sent and the
\* message_id of the event.
AckConvergence ==
  [][\A o \in outbox, r \in AckIds :
       (/\ o.ack = 0
        /\ [o EXCEPT !.ack = r] \in outbox'
        /\ \E i \in WithLid(messages, o.msg.lid) : messages[i].st = "sending")
       => /\ Cardinality(WithLid(messages', o.msg.lid)) = 1
          /\ \A i \in WithLid(messages', o.msg.lid) :
               messages'[i].st = "sent" /\ messages'[i].mid = r]_vars

\* An optimistic record has been acknowledged before any echo of it.
AckWitness ==
  \E o \in outbox :
    /\ o.ack # 0 /\ ~o.echoed
    /\ \E i \in WithLid(messages, o.msg.lid) :
         messages[i].st = "sent" /\ messages[i].mid = o.ack

\* C7 (recall monotonicity): a record that is recalled in messages is, in
\* the next state, recalled wherever a record with its local id is held.
RecallMonotonic ==
  [][\A i \in 1..Len(messages) :
       messages[i].rec =>
         \A j \in WithLid(messages', messages[i].lid) : messages'[j].rec]_vars

\* C8 (scope filter): a record of messages is in filteredMessages exactly
\* when its message_type is the open chat type and its user_id (private) or
\* group_id (group) is the open chat id, whether received or sent; the
\* visible list holds those records and nothing else.
InScope(m) ==
  /\ m.mtype = chatType
  /\ IF m.mtype = "private" THEN m.uid = chatId ELSE m.gid = chatId

ScopeFilter ==
  /\ \A i \in 1..Len(messages) :
       (messages[i] \in Range(filteredMessages)) <=> InScope(messages[i])
  /\ Range(filteredMessages) \subseteq Range(messages)
  /\ Len(filteredMessages) =
       Cardinality({i \in 1..Len(messages) : InScope(messages[i])})

\* The record set holds a visible sent record, a visible received record
\* and a record of another conversation.
ScopeFilterWitness ==
  /\ \E i \in 1..Len(messages) :
       InScope(messages[i]) /\ messages[i].post = "message_sent"
  /\ \E i \in 1..Len(messages) :
       InScope(messages[i]) /\ messages[i].post = "message"
  /\ \E i \in 1..Len(messages) : ~InScope(messages[i])

\* C9 (example scenario). In private/1001 the visible records are the
\* history rows at 1000 and 1002 (user 1001) and 1400 (self) and the record
\* with the fresh local id at 1402 (self).
Abc == FirstFreshId

ScenarioVisible ==
  /\ chatType = "private" /\ chatId = 1001
  /\ Len(messages) >= 4
  /\ LET f == filteredMessages
     IN [i \in 1..Len(f) |-> <<f[i].lid, f[i].time, getSenderId(f[i])>>]
          = << <<1, 1000, <<"user", 1001>> >>, <<2, 1002, <<"user", 1001>> >>,
               <<3, 1400, <<"self", 0>> >>, <<Abc, 1402, <<"self", 0>> >> >>

Lids(msgs) == [i \in 1..Len(msgs) |-> msgs[i].lid]

ScenarioGrouping(gs) ==
  /\ Len(gs) = 2
  /\ Lids(gs[1].messages) = <<1, 2>> /\ gs[1].showTime
  /\ Lids(gs[2].messages) = <<3, Abc>> /\ gs[2].showTime

\* The grouping of the scenario is the two clusters {1000, 1002} and
\* {1400, 1402}, both with showTime; and when record Abc has message_id 999
\* and the recall notice for 999 is handled, the record is then recalled,
\* keeps message_id 999, and the clusters keep their members and order.
Scenario ==
  /\ [](ScenarioVisible => ScenarioGrouping(groupedMessages))
  /\ [][(/\ \E h \in handlers :
              /\ h.kind = "recall" /\ h.mid = 999
              /\ handlers' = handlers \ {h}
              /\ budget' = budget
         /\ \E i \in WithLid(messages, Abc) : messages[i].mid = 999
         /\ ScenarioVisible)
        => /\ \A i \in WithLid(messages', Abc) :
                messages'[i].rec /\ messages'[i].mid = 999
           /\ WithLid(messages', Abc) # {}
           /\ ScenarioGrouping(groupedMessagesOf(
                filteredMessagesOf(messages', chatType', chatId')))]_vars

\* The scenario after the echo, the ack and the recall.
ScenarioWitness ==
  /\ ScenarioVisible
  /\ ScenarioGrouping(groupedMessages)
  /\ \E o \in outbox : o.msg.lid = Abc /\ o.echoed /\ o.ack = 999
  /\ \E i \in WithLid(messages, Abc) : messages[i].rec /\ messages[i].mid = 999

\* C10 (optimistic insertion): while the saveMessage call or the outbound
\* request of a sendMessage is pending, messages holds the record of that
\* send.
OptimisticPresent ==
  \A s \in sends : HasLid(messages, s.msg.lid)

\* C11 (message_id immutability): a record of messages that has a
\* message_id has, in the next state, the same message_id wherever a record
\* with its local id is held.
RemoteIdImmutable ==
  [][\A i \in 1..Len(messages) :
       messages[i].mid # 0 =>
         \A j \in WithLid(messages', messages[i].lid) :
           messages'[j].mid = messages[i].mid]_vars

\* C12 (no deletion during the session): every record held in messages is
\* still held in the next state.
NoDeletion ==
  [][\A i \in 1..Len(messages) : HasLid(messages', messages[i].lid)]_vars

\* C13 (idempotent mutations): on every reachable record set, applying the
\* message-sent patch for a local id and a message_id, the failure patch for
\* a local id, or handleMessageRecalled for a message_id a second time gives
\* what the first application gave.
MutationsIdempotent ==
  /\ \A lid \in 1..nextId, r \in AckIds :
       messageSentIn(messageSentIn(messages, lid, r), lid, r)
         = messageSentIn(messages, lid, r)
  /\ \A lid \in 1..nextId :
       sendFailedIn(sendFailedIn(messages, lid), lid) = sendFailedIn(messages, lid)
  /\ \A r \in RecallIds \cup AckIds :
       handleMessageRecalledIn(handleMessageRecalledIn(messages, r).msgs, r)
         = handleMessageRecalledIn(messages, r)

\* A record has been acknowledged and then recalled while another recall
\* target is still unrecalled, so each of the three patches changes some
\* reachable record set.
MutationsWitness ==
  /\ \E o \in outbox :
       /\ o.ack # 0
       /\ \E i \in WithLid(messages, o.msg.lid) :
            messages[i].mid = o.ack /\ messages[i].rec
       /\ sendFailedIn(messages, o.msg.lid) # messages
  /\ \E r \in RecallIds : handleMessageRecalledIn(messages, r).msgs # messages

\* ------------------------------------------------------------------------
\* Recall notices without a record in memory

\* A step in which the recall handler h resumes after markMessageRecalled
\* while no record of messages has its message_id.
RecallNoTargetStep(h) ==
  /\ h \in handlers
  /\ h.kind = "recall"
  /\ handlers' = handlers \ {h}
  /\ FindIndexByMid(messages, h.mid) = 0

\* A step in which the getMessages call of a reload started by
\* handleMessageRecalled returns rows.
ReloadReturnStep(l) ==
  /\ l \in loads
  /\ l.by = "recall"
  /\ loads' = loads \ {l}
  /\ budget' = budget

\* C14 as claimed: handling a recall notice whose message_id no record of
\* messages has marks the row in the store and leaves messages as it is,
\* both when the handler resumes and when the handling has run to its end.
RecallNoTargetUnchanged ==
  [][/\ \A h \in handlers :
          RecallNoTargetStep(h) =>
            /\ messages' = messages
            /\ budget' = budget => db' = DbMarkRecalled(db, h.mid)
     /\ \A l \in loads : ReloadReturnStep(l) => messages' = messages]_vars

\* C14 as amended: the row is marked in the store; when the handler resumes
\* no record is patched, added or removed, and on a successful mark with a
\* conversation open a reload of that conversation is started (none when the
\* mark was rejected); when the reload returns, messages is replaced by the
\* returned rows that belong to the conversation then open.
RecallNoTargetReloads ==
  [][/\ \A h \in handlers :
          RecallNoTargetStep(h) =>
            /\ messages' = messages
            /\ IF budget' = budget
               THEN /\ db' = DbMarkRecalled(db, h.mid)
                    /\ loads' = IF chatType = "none" THEN loads
                                ELSE loads \cup
                                  {[ct |-> chatType, ci |-> chatId,
                                    by |-> "recall",
                                    rows |-> DbGetMessages(db', chatType, chatId)]}
               ELSE db' = db /\ loads' = loads
     /\ \A l \in loads :
          ReloadReturnStep(l) =>
            \E rows \in {l.rows, DbGetMessages(db, l.ct, l.ci)} :
              /\ Len(messages') = Cardinality({i \in 1..Len(rows) : InScope(rows[i])})
              /\ \A i \in 1..Len(messages') :
                   messages'[i] \in Range(rows) /\ InScope(messages'[i])]_vars

\* A recall notice for a message_id that no record had has been handled and
\* the reload it started has replaced a record set that held a pending send
\* by the stored rows.
RecallNoTargetWitness ==
  /\ handlers = {} /\ loads = {}
  /\ \E r \in db : r.rec /\ r.mid \in RecallIds
  /\ \E s \in sends : ~HasLid(messages, s.msg.lid)
  /\ Len(messages) = Cardinality(HistoryRows)

\* C16 (unmatched ack): when message-sent arrives for a local id that no
\* record of messages has, messages is left as it was.
UnmatchedAck ==
  [][\A o \in outbox :
       (/\ o.ack = 0
        /\ \E r \in AckIds : [o EXCEPT !.ack = r] \in outbox'
        /\ ~HasLid(messages, o.msg.lid))
       => messages' = messages]_vars

\* The ack of a send has been reported, its record is neither in messages
\* nor in the store, and messages holds the loaded history.
UnmatchedAckWitness ==
  /\ loads = {} /\ sends = {} /\ handlers = {}
  /\ Len(messages) = Cardinality(HistoryRows)
  /\ \E o \in outbox :
       /\ o.ack # 0
       /\ ~HasLid(messages, o.msg.lid)
       /\ \A r \in db : r.lid # o.msg.lid

\* C17 (interleaving with loads): when the getMessages call of a load for
\* the open conversation returns, every record of that conversation that
\* messages held, among them the records admitted by addMessage or
\* sendMessage while the call was in flight, is still in messages.
LoadKeepsAdmitted ==
  [][\A l \in loads :
       (/\ loads' = loads \ {l}
        /\ budget' = budget
        /\ l.ct = chatType /\ l.ci = chatId)
       => \A i \in 1..Len(messages) :
            InChat(messages[i], l.ct, l.ci) => HasLid(messages', messages[i].lid)]_vars

LidSet(msgs) == {msgs[i].lid : i \in 1..Len(msgs)}

\* C23 (event routing): a step that puts a record with a new local id into
\* messages is the completion of a handler for a message or message_sent
\* event of the open conversation, a submission or the return of a load;
\* the handler of a recall notice adds no record, and when it completes it
\* has passed the message_id to handleMessageRecalled (once: the handler is
\* gone afterwards).
EventRouting ==
  [][/\ LidSet(messages') \ LidSet(messages) # {}
          => \/ \E l \in loads : loads' = loads \ {l}
             \/ \E s \in sends' : s \notin sends /\ s.pc = "save"
             \/ \E h \in handlers :
                  /\ handlers' = handlers \ {h}
                  /\ h.kind = "message"
                  /\ h.msg.post \in {"message", "message_sent"}
                  /\ InChat(h.msg, chatType, chatId)
     /\ \A h \in handlers :
          (h.kind = "recall" /\ handlers' = handlers \ {h})
          => /\ LidSet(messages') \subseteq LidSet(messages)
             /\ messages' = handleMessageRecalledIn(messages, h.mid).msgs]_vars

\* C25 (single submission): at most one sendMessage invocation is under way
\* at any moment, whether it awaits saveMessage or the outbound request.
SingleSubmission == Cardinality(sends) <= 1

\* C26 (conversation switch): the conversation has been changed twice and
\* nothing else has happened; when the last load in flight returns, messages
\* holds the stored history of the conversation that is open.
SwitchConsistency ==
  [][\A l \in loads :
       (/\ loads = {l} /\ loads' = {}
        /\ budget' = budget
        /\ budget = MaxInputs - 2
        /\ nextId = FirstFreshId /\ notices = {} /\ db = HistoryRows)
       => LET stored == DbGetMessages(db, chatType, chatId)
          IN messages' = FilterSeq(stored,
                           {m \in Range(stored) : InChat(m, chatType, chatId)})]_vars

\* C27 (recall eventually visible): the conversation private/1001 is open,
\* the message 104 and then its recall notice have been pushed and no
\* backend call was rejected; once the handlers and the loads have finished,
\* every record with message_id 104 is recalled.
RecallEventuallyVisible ==
  (/\ chatType = "private" /\ chatId = 1001
   /\ 104 \in notices
   /\ budget = MaxInputs - 3
   /\ handlers = {} /\ loads = {})
  => \A i \in 1..Len(messages) : messages[i].mid = 104 => messages[i].rec

\* C28 (sendState one way): a record that is sent stays sent and a record
\* that is failed stays failed, for as long as messages holds a record with
\* its local id.
SendStateOneWay ==
  [][\A i \in 1..Len(messages), j \in 1..Len(messages') :
       (messages[i].lid = messages'[j].lid /\ messages[i].st \in {"sent", "failed"})
       => messages'[j].st = messages[i].st]_vars

\* C29 (request/response correlation): the map holds a callback only for a
\* call whose promise is pending; a settled promise keeps its outcome; the
\* step that settles a call leaves no entry for it and no timer scheduled;
\* an API response changes a call only when it is pending and its callback
\* is the one registered under the echo of the response; and every call is
\* settled eventually.
CallbacksOnlyPending ==
  \A e \in Echoes :
    apiResponseCallbacks[e] # 0 =>
      /\ apiResponseCallbacks[e] \in 1..Len(calls)
      /\ calls[apiResponseCallbacks[e]].promise = "pending"

Correlation ==
  /\ []CallbacksOnlyPending
  /\ [][\A c \in 1..Len(calls) :
          /\ calls[c].promise # "pending" => calls'[c].promise = calls[c].promise
          /\ (calls[c].promise = "pending" /\ calls'[c].promise # "pending")
               => /\ apiResponseCallbacks'[calls[c].echo] # c
                  /\ ~calls'[c].timer
          /\ (budget' # budget /\ calls'[c] # calls[c])
               => /\ calls[c].promise = "pending"
                  /\ apiResponseCallbacks[calls[c].echo] = c]_vars
  /\ \A c \in 1..MaxCalls :
       (Len(calls) >= c) ~> (Len(calls) >= c /\ calls[c].promise # "pending")

\* Two calls with different echoes: the first was rejected by its timeout
\* (its request had been sent), the second resolved by a response; both
\* responses of the gateway have been handled and the map is empty.
CorrelationWitness ==
  /\ Len(calls) = 2
  /\ calls[1].echo # calls[2].echo
  /\ calls[1].promise = "rejected" /\ calls[1].invoke = "done"
  /\ calls[2].promise = "resolved"
  /\ budget = 0
  /\ \A e \in Echoes : apiResponseCallbacks[e] = 0

\* The status connected and a valid self_id have arrived, in either order,
\* and nothing else: no other event, no timer expiry, no rejected call.
LoginReady ==
  /\ hasSelfId
  /\ storeStatus = "connected"
  /\ budget = MaxEvents - 2

\* C30 (login progress): from connected with a valid self_id the component
\* emits connected, unless another event arrives first.
LoginProgress == LoginReady ~> (emitted \/ ~LoginReady)

\* ------------------------------------------------------------------------
\* Failures of backend calls

\* C18 (persistence is not fatal): when saveMessage is rejected in the push
\* handler, the record is still passed to addMessage: a record of the open
\* conversation is in messages afterwards and the records held before are
\* kept as they were; when saveMessage is rejected in sendMessage, messages
\* is left as it was and the outbound request is issued.
PersistFailureNonFatal ==
  [][/\ \A h \in handlers :
          (/\ h.kind = "message"
           /\ handlers' = handlers \ {h}
           /\ budget' = budget - 1)
          => /\ InScope(h.msg) => HasLid(messages', h.msg.lid)
             /\ Len(messages') >= Len(messages)
             /\ \A i \in 1..Len(messages) : messages'[i] = messages[i]
     /\ \A s \in sends :
          (/\ s.pc = "save"
           /\ s \notin sends'
           /\ budget' = budget - 1)
          => /\ messages' = messages
             /\ \E t \in sends' : t.msg = s.msg /\ t.pc = "send"
             /\ sending']_vars

\* A pushed message whose saveMessage was rejected is in messages and not
\* in the store.
PersistFailureWitness ==
  \E i \in 1..Len(messages) :
    /\ messages[i].post = "message"
    /\ messages[i].lid >= FirstFreshId
    /\ \A r \in db : r.lid # messages[i].lid

\* C15 (send failure): when the outbound request of the send with local id
\* X is rejected, messages then holds the record X with sendStatus failed
\* and sending is false.
SendFailureMarked ==
  [][\A s \in sends :
       (/\ s.pc = "send"
        /\ sends' = sends \ {s}
        /\ budget' = budget - 1)
       => /\ \E i \in WithLid(messages', s.msg.lid) : messages'[i].st = "failed"
          /\ ~sending']_vars

====
